---------------------------- MODULE Spec2Model ----------------------------
(***************************************************************************)
(* A model of the Wikipedia outline service: the file cache                *)
(* (app/core/cache.py), the heading extractor (app/services/wikipedia.py), *)
(* the outline formatter (app/services/outline.py) and the /api/outline    *)
(* handler (app/api/routes.py).                                            *)
(*                                                                         *)
(* Python strings are sequences of one-character strings, so that strip,   *)
(* replace, title and join are computed and not assumed.                   *)
(***************************************************************************)
EXTENDS Integers, Sequences, FiniteSets, TLC

VARIABLES
    html_content,   \* extract_headings: the parsed document, nodes in document order
    headings,       \* extract_headings: the list it returned
    xdone,          \* extract_headings: has it run
    country,        \* create_outline_with_header: its country argument
    hlist,          \* create_outline_with_header: its headings argument
    outline,        \* create_outline_with_header: what it returned
    odone,          \* create_outline_with_header: has it run
    cache,          \* the cache directory: file name -> content, or Absent
    last,           \* the operation that ran last, with what it did
    prev,           \* the operation that ran before it
    file,           \* concurrent cached_get: the URL's cache file, or Absent
    pc,             \* concurrent cached_get: each call's position
    off,            \* concurrent cached_get: each writer's file offset
    ret,            \* concurrent cached_get: what each call returned
    missed,         \* concurrent cached_get: did the call's existence check fail
    loop,           \* the event loop: the request whose handler runs, or 0
    rstate,         \* each request's position
    rkind,          \* each request's endpoint
    stored          \* the countries whose page is cached (event-loop model)

xvars == <<html_content, headings, xdone>>
ovars == <<country, hlist, outline, odone>>
svars == <<cache, last, prev>>
cvars == <<file, pc, off, ret, missed>>
lvars == <<loop, rstate, rkind, stored>>
vars == <<xvars, ovars, svars, cvars, lvars>>

(***************************************************************************)
(* Bounds of the model.                                                    *)
(***************************************************************************)
MaxElems == 2       \* nodes in a document
MaxHeadings == 2    \* entries of a heading list handed to the formatter
NProcs == 3         \* concurrent cached_get calls on one URL
NChunks == 2        \* write calls the response body takes to reach the file
NReqs == 3          \* requests sent to the server

(***************************************************************************)
(* Python str operations.                                                  *)
(***************************************************************************)
Range(s) == {s[i] : i \in DOMAIN s}

Whitespace == {" ", "\n", "\t"}

LowerLetters == <<"a","b","c","d","e","f","g","h","i","j","k","l","m",
                  "n","o","p","q","r","s","t","u","v","w","x","y","z">>
UpperLetters == <<"A","B","C","D","E","F","G","H","I","J","K","L","M",
                  "N","O","P","Q","R","S","T","U","V","W","X","Y","Z">>

IsLower(c) == c \in Range(LowerLetters)
IsUpper(c) == c \in Range(UpperLetters)
IsCased(c) == IsLower(c) \/ IsUpper(c)

IndexOf(c, letters) == CHOOSE i \in DOMAIN letters : letters[i] = c

\* str.upper() and str.lower() of one character
ToUpper(c) == IF IsLower(c) THEN UpperLetters[IndexOf(c, LowerLetters)] ELSE c
ToLower(c) == IF IsUpper(c) THEN LowerLetters[IndexOf(c, UpperLetters)] ELSE c

\* str.title(): a cased character that follows a cased character is lowered,
\* any other is raised.
Title(s) ==
    [i \in DOMAIN s |->
        IF i > 1 /\ IsCased(s[i - 1]) THEN ToLower(s[i]) ELSE ToUpper(s[i])]

\* str.replace(" ", "_")
ReplaceSpaces(s) == [i \in DOMAIN s |-> IF s[i] = " " THEN "_" ELSE s[i]]

RECURSIVE LStrip(_)
LStrip(s) ==
    IF s = <<>> THEN <<>>
    ELSE IF Head(s) \in Whitespace THEN LStrip(Tail(s)) ELSE s

RECURSIVE RStrip(_)
RStrip(s) ==
    IF s = <<>> THEN <<>>
    ELSE IF s[Len(s)] \in Whitespace THEN RStrip(SubSeq(s, 1, Len(s) - 1)) ELSE s

\* str.strip()
Strip(s) == RStrip(LStrip(s))

StartsWith(s, p) == Len(s) >= Len(p) /\ SubSeq(s, 1, Len(p)) = p

\* p in s
Contains(s, p) ==
    \E i \in 1..(Len(s) - Len(p) + 1) : SubSeq(s, i, i + Len(p) - 1) = p

\* s.replace(p, ''): one pass, left to right, over non-overlapping occurrences
RECURSIVE Remove(_, _)
Remove(s, p) ==
    IF s = <<>> THEN <<>>
    ELSE IF StartsWith(s, p) THEN Remove(SubSeq(s, Len(p) + 1, Len(s)), p)
    ELSE <<Head(s)>> \o Remove(Tail(s), p)

\* sep.join(parts)
RECURSIVE Join(_, _)
Join(parts, sep) ==
    IF parts = <<>> THEN <<>>
    ELSE IF Len(parts) = 1 THEN parts[1]
    ELSE parts[1] \o sep \o Join(Tail(parts), sep)

\* c * n
RECURSIVE Repeat(_, _)
Repeat(c, n) == IF n <= 0 THEN <<>> ELSE <<c>> \o Repeat(c, n - 1)

\* All sequences over S of length at most n
SeqsUpTo(S, n) == UNION {[1..k -> S] : k \in 0..n}

(***************************************************************************)
(* WikipediaService.extract_headings                                       *)
(***************************************************************************)
EDIT == <<"[","e","d","i","t","]">>

HeadingTags == {<<"h","1">>, <<"h","2">>, <<"h","3">>,
                <<"h","4">>, <<"h","5">>, <<"h","6">>}

\* int(c) of a digit character
IntOf(c) ==
    CASE c = "0" -> 0 [] c = "1" -> 1 [] c = "2" -> 2 [] c = "3" -> 3
      [] c = "4" -> 4 [] c = "5" -> 5 [] c = "6" -> 6 [] c = "7" -> 7
      [] c = "8" -> 8 [] c = "9" -> 9

\* level = int(tag_name[1]): Python indexes from 0
TagLevel(tag) == IntOf(tag[2])

\* A variant that selects level by level: all h1, then all h2, ...
RECURSIVE XPathByLevel(_, _)
XPathByLevel(tree, lv) ==
    IF lv > 6 THEN <<>>
    ELSE SelectSeq(tree, LAMBDA n : n.tag \in HeadingTags /\ TagLevel(n.tag) = lv)
         \o XPathByLevel(tree, lv + 1)

XPathGrouped(tree) == XPathByLevel(tree, 1)

\* tree.xpath('//h1 | //h2 | //h3 | //h4 | //h5 | //h6'): a node-set union,
\* returned in document order
XPathHeadings(tree) == SelectSeq(tree, LAMBDA n : n.tag \in HeadingTags)

\* heading.text_content().strip()
TextOf(node) == Strip(node.text)

\* if text and '[edit]' not in text
Keep(text) == text # <<>> /\ ~Contains(text, EDIT)

\* text.replace('[edit]', '').strip()
CleanText(text) == Strip(Remove(text, EDIT))

\* The for loop over all_headings
RECURSIVE CollectHeadings(_)
CollectHeadings(all_headings) ==
    IF all_headings = <<>> THEN <<>>
    ELSE LET heading == Head(all_headings)
             level == TagLevel(heading.tag)
             text == TextOf(heading)
         IN  (IF Keep(text) THEN << <<level, CleanText(text)>> >> ELSE <<>>)
             \o CollectHeadings(Tail(all_headings))

extract_headings(tree) == CollectHeadings(XPathHeadings(tree))

(***************************************************************************)
(* OutlineService                                                          *)
(***************************************************************************)
NL2 == <<"\n", "\n">>

HeaderPrefix == <<"#"," ","W","i","k","i","p","e","d","i","a"," ",
                  "O","u","t","l","i","n","e",":"," ">>

\* f"{prefix} {text}" with prefix = "#" * level
MarkdownLine(h) == Repeat("#", h[1]) \o <<" ">> \o h[2]

\* A variant that ends every line, the last included, with the separator
RECURSIVE JoinTrailing(_, _)
JoinTrailing(parts, sep) ==
    IF parts = <<>> THEN <<>>
    ELSE parts[1] \o sep \o JoinTrailing(Tail(parts), sep)

GenerateMarkdownTrailing(hs) ==
    JoinTrailing([i \in DOMAIN hs |-> MarkdownLine(hs[i])], NL2)

generate_markdown(hs) ==
    IF hs = <<>> THEN <<>>
    ELSE Join([i \in DOMAIN hs |-> MarkdownLine(hs[i])], NL2)

create_outline_with_header(c, hs) ==
    LET markdown == generate_markdown(hs)
        header == HeaderPrefix \o Title(c) \o NL2
    IN  header \o markdown

(***************************************************************************)
(* Inputs of the pure functions.                                           *)
(***************************************************************************)
\* Raw text contents of a node
T_HistoryEdit == <<"H","i","s","t","o","r","y","[","e","d","i","t","]">>
T_Edit == <<"[","e","d","i","t","]">>
T_EditPadded == <<" ","[","e","d","i","t","]"," ">>
T_GeoPadded == <<" ","G","e","o","\n">>
T_Empty == <<>>

T_History == <<"H","i","s","t","o","r","y">>

Texts == {T_HistoryEdit, T_Edit, T_EditPadded, T_GeoPadded, T_History, T_Empty}

Tags == HeadingTags \cup {<<"p">>}

Nodes == [tag : Tags, text : Texts]

S_india == <<"i","n","d","i","a">>
S_India == <<"I","n","d","i","a">>
S_Etymology == <<"E","t","y","m","o","l","o","g","y">>
S_new_york == <<"n","e","w"," ","y","o","r","k">>
S_McDonald == <<"m","c","D","o","n","a","l","d">>

OutlineCountries == {S_india, S_new_york, S_McDonald, <<>>}

Levels == 1..6

HeadingEntries == Levels \X {S_India, S_Etymology}

ExampleHeadings == << <<1, S_India>>, <<2, S_Etymology>> >>

ExampleOutline == <<"#"," ","W","i","k","i","p","e","d","i","a"," ","O","u","t","l","i","n","e",":"," ","I","n","d","i","a","\n","\n","#"," ","I","n","d","i","a","\n","\n","#","#"," ","E","t","y","m","o","l","o","g","y">>

(***************************************************************************)
(* SpecExtract: extract_headings applied to every bounded document.        *)
(***************************************************************************)
OutlineIdle == country = <<>> /\ hlist = <<>> /\ outline = <<>> /\ odone = FALSE

ExtractIdle == html_content = <<>> /\ headings = <<>> /\ xdone = FALSE

ServiceIdle == cache = <<>> /\ last = <<>> /\ prev = <<>>

ConcIdle == file = <<>> /\ pc = <<>> /\ off = <<>> /\ ret = <<>> /\ missed = <<>>

LoopIdle == loop = 0 /\ rstate = <<>> /\ rkind = <<>> /\ stored = {}

InitExtract ==
    /\ html_content \in SeqsUpTo(Nodes, MaxElems)
    /\ headings = <<>>
    /\ xdone = FALSE
    /\ OutlineIdle /\ ServiceIdle /\ ConcIdle /\ LoopIdle

ExtractHeadings ==
    /\ ~xdone
    /\ headings' = extract_headings(html_content)
    /\ xdone' = TRUE
    /\ UNCHANGED <<html_content, ovars, svars, cvars, lvars>>

NextExtract == ExtractHeadings

SpecExtract == InitExtract /\ [][NextExtract]_vars

(***************************************************************************)
(* SpecOutline: create_outline_with_header applied to every bounded input. *)
(***************************************************************************)
InitOutline ==
    /\ country \in OutlineCountries
    /\ hlist \in SeqsUpTo(HeadingEntries, MaxHeadings)
    /\ outline = <<>>
    /\ odone = FALSE
    /\ ExtractIdle /\ ServiceIdle /\ ConcIdle /\ LoopIdle

CreateOutline ==
    /\ ~odone
    /\ outline' = create_outline_with_header(country, hlist)
    /\ odone' = TRUE
    /\ UNCHANGED <<country, hlist, xvars, svars, cvars, lvars>>

NextOutline == CreateOutline

SpecOutline == InitOutline /\ [][NextOutline]_vars

(***************************************************************************)
(* Properties of extract_headings.                                         *)
(***************************************************************************)
\* The numeric suffix of a heading tag, read off the tag name
SuffixOf(tag) ==
    CASE tag = <<"h","1">> -> 1 [] tag = <<"h","2">> -> 2 [] tag = <<"h","3">> -> 3
      [] tag = <<"h","4">> -> 4 [] tag = <<"h","5">> -> 5 [] tag = <<"h","6">> -> 6

HeadingPositions == {i \in DOMAIN html_content : html_content[i].tag \in HeadingTags}

\* The k-th smallest member of a set of positions
NthOf(S, k) == CHOOSE i \in S : Cardinality({j \in S : j < i}) = k - 1

\* Headings with a non-empty trimmed text that holds no edit marker
PlainPositions ==
    {i \in HeadingPositions :
        /\ Strip(html_content[i].text) # <<>>
        /\ ~Contains(html_content[i].text, EDIT)}

\* C3: a heading whose trimmed text contains "[edit]" has the marker removed
\* and is re-trimmed; it is listed with the remainder as its text when the
\* remainder is non-empty ("History[edit]" gives (level, "History")), and is
\* dropped only when the remainder is empty ("[edit]" gives no entry).
C3_EditMarkerStripped ==
    xdone =>
        /\ \A i \in HeadingPositions :
              LET n == html_content[i]
                  t == Strip(n.text)
                  rest == Strip(Remove(t, EDIT))
              IN  (Contains(t, EDIT) /\ rest # <<>>)
                      => <<SuffixOf(n.tag), rest>> \in Range(headings)
        /\ \A k \in DOMAIN headings : headings[k][2] # <<>>

\* C6: the returned list is a subsequence of the document's h1..h6 elements in
\* document order (levels interleaved, never grouped or sorted), every
\* heading with a plain non-empty text is in it, and each entry's level is
\* the numeric suffix of its tag.
C6_DocumentOrder ==
    xdone =>
        \E S \in SUBSET HeadingPositions :
            /\ PlainPositions \subseteq S
            /\ Len(headings) = Cardinality(S)
            /\ \A k \in DOMAIN headings :
                  LET n == html_content[NthOf(S, k)]
                  IN  /\ headings[k][1] = SuffixOf(n.tag)
                      /\ headings[k][1] \in 1..6
                      /\ headings[k][2] = Strip(Remove(Strip(n.text), EDIT))

\* C6 witness: two headings survive, a deeper level before a shallower one,
\* with different texts
C6_Witness ==
    /\ xdone
    /\ Len(headings) = 2
    /\ headings[1][1] > headings[2][1]
    /\ headings[1][2] # headings[2][2]

(***************************************************************************)
(* Properties of create_outline_with_header.                               *)
(***************************************************************************)
\* Where the k-th heading line starts in the outline (0-based offset)
RECURSIVE LineOffset(_, _, _)
LineOffset(c, hs, k) ==
    IF k = 1 THEN Len(HeaderPrefix) + Len(c) + 2
    ELSE LineOffset(c, hs, k - 1) + hs[k - 1][1] + 1 + Len(hs[k - 1][2]) + 2

\* t is c in title case: the same letters, a cased letter upper exactly when
\* no cased letter precedes it
IsTitleCaseOf(t, c) ==
    /\ Len(t) = Len(c)
    /\ \A i \in DOMAIN c :
          /\ ToLower(t[i]) = ToLower(c[i])
          /\ IsCased(t[i]) => (IsUpper(t[i]) <=> (i = 1 \/ ~IsCased(c[i - 1])))

\* C7: the outline is "# Wikipedia Outline: " + title-cased country + "\n\n",
\* then the headings in their given order, each level times '#', one space
\* and the text, separated by "\n\n" with no trailing separator; for an empty
\* list it is exactly the title block; the India example gives its literal.
C7_OutlineFormat ==
    odone =>
        LET n == Len(hlist)
            P == Len(HeaderPrefix)
            end == IF n = 0 THEN P + Len(country) + 2
                   ELSE LineOffset(country, hlist, n) + hlist[n][1] + 1 + Len(hlist[n][2])
        IN  /\ Len(outline) = end
            /\ SubSeq(outline, 1, P) = HeaderPrefix
            /\ IsTitleCaseOf(SubSeq(outline, P + 1, P + Len(country)), country)
            /\ SubSeq(outline, P + Len(country) + 1, P + Len(country) + 2) = NL2
            /\ \A k \in 1..n :
                  LET o == LineOffset(country, hlist, k)
                      lv == hlist[k][1]
                      tx == hlist[k][2]
                  IN  /\ \A j \in 1..lv : outline[o + j] = "#"
                      /\ outline[o + lv + 1] = " "
                      /\ SubSeq(outline, o + lv + 2, o + lv + 1 + Len(tx)) = tx
                      /\ k < n => SubSeq(outline, o + lv + 2 + Len(tx),
                                         o + lv + 3 + Len(tx)) = NL2
            /\ (country = S_india /\ hlist = ExampleHeadings) => outline = ExampleOutline

\* C7 witness: the India example has been formatted
C7_Witness ==
    /\ odone
    /\ country = S_india
    /\ hlist = ExampleHeadings
    /\ outline = ExampleOutline

(***************************************************************************)
(* The cache, the page fetcher and the /api/outline handler, one call at   *)
(* a time.                                                                 *)
(***************************************************************************)
BASE_URL == <<"h","t","t","p","s",":","/","/","e","n",".","w","i","k","i","p","e","d","i","a",".","o","r","g","/","w","i","k","i","/">>

\* country.replace(" ", "_").title() appended to BASE_URL
construct_url(c) == BASE_URL \o Title(ReplaceSpaces(c))

\* hashlib.md5(url.encode('utf-8')).hexdigest(): the digest is kept abstract,
\* one file name per URL (no collisions among the URLs of the model)
Md5(url) == <<"md5">> \o url

Absent == [present |-> FALSE, content |-> <<>>]
FileOf(content) == [present |-> TRUE, content |-> content]

NoExc == [class |-> "", status |-> 0]

\* The classes an exception is an instance of
Mro(class) ==
    CASE class = "HTTPException" -> {"HTTPException", "Exception"}
      [] class = "HTTPStatusError" -> {"HTTPStatusError", "HTTPError", "Exception"}
      [] class = "ConnectError" ->
            {"ConnectError", "TransportError", "RequestError", "HTTPError", "Exception"}
      [] class = "ConnectTimeout" ->
            {"ConnectTimeout", "TimeoutException", "TransportError", "RequestError",
             "HTTPError", "Exception"}
      [] OTHER -> {}

IsInstance(e, class) == class \in Mro(e.class)

\* What one httpx.get can come back with
NoUpstream == [kind |-> "none", code |-> 0, body |-> <<>>, class |-> ""]

\* A variant that returns the response without saving it
cached_get_unsaved(c, url, up) ==
    LET cache_path == Md5(url)
    IN  IF c[cache_path].present
        THEN [exc |-> NoExc, ret |-> c[cache_path].content, cache |-> c,
              fetches |-> 0, up |-> NoUpstream]
        ELSE IF up.kind = "ok"
        THEN [exc |-> NoExc, ret |-> up.body, cache |-> c, fetches |-> 1, up |-> up]
        ELSE [exc |-> [class |-> up.class, status |-> up.code], ret |-> <<>>,
              cache |-> c, fetches |-> 1, up |-> up]

\* cached_get(url) on cache directory c, with up what the network answers if
\* it is asked: the exception raised (or NoExc), the value returned, the
\* directory afterwards, and the number of HTTP requests made
cached_get(c, url, up) ==
    LET cache_path == Md5(url)
    IN  IF c[cache_path].present
        THEN [exc |-> NoExc, ret |-> c[cache_path].content, cache |-> c,
              fetches |-> 0, up |-> NoUpstream]
        ELSE IF up.kind = "transport"
        THEN \* httpx.get raises
             [exc |-> [class |-> up.class, status |-> 0], ret |-> <<>>,
              cache |-> c, fetches |-> 1, up |-> up]
        ELSE IF up.kind = "status"
        THEN \* response.raise_for_status() raises
             [exc |-> [class |-> "HTTPStatusError", status |-> up.code], ret |-> <<>>,
              cache |-> c, fetches |-> 1, up |-> up]
        ELSE [exc |-> NoExc, ret |-> up.body,
              cache |-> [c EXCEPT ![cache_path] = FileOf(up.body)],
              fetches |-> 1, up |-> up]

\* A variant that wipes the directory whatever its argument
clear_cache_all(c, url) == [f \in DOMAIN c |-> Absent]

\* clear_cache(url): `if url:` is false for None and for the empty string
NoneUrl == <<"None">>

clear_cache(c, url) ==
    IF url # NoneUrl /\ url # <<>>
    THEN LET cache_path == Md5(url)
         IN  IF cache_path \in DOMAIN c /\ c[cache_path].present
             THEN [c EXCEPT ![cache_path] = Absent]
             ELSE c
    ELSE [f \in DOMAIN c |-> Absent]

fetch_page(c, ctry, up) == cached_get(c, construct_url(ctry), up)

\* The body of the handler's try block
TryBody(c, ctry, up) ==
    IF ctry = <<>> \/ Strip(ctry) = <<>>
    THEN [exc |-> [class |-> "HTTPException", status |-> 400], ret |-> <<>>,
          cache |-> c, fetches |-> 0, up |-> NoUpstream, accessed |-> FALSE]
    ELSE LET page == fetch_page(c, ctry, up)
             hs == extract_headings(page.ret)
         IN  IF page.exc # NoExc
             THEN [page EXCEPT !.ret = <<>>] @@ [accessed |-> TRUE]
             ELSE IF hs = <<>>
             THEN [page EXCEPT !.exc = [class |-> "HTTPException", status |-> 404],
                               !.ret = <<>>] @@ [accessed |-> TRUE]
             ELSE [page EXCEPT !.ret = create_outline_with_header(ctry, hs)]
                  @@ [accessed |-> TRUE]

\* A variant whose catch-all clause comes first
ExceptClausesCatchAll(e) == 500

\* The except clauses, first match first: the status of the HTTPException
\* the handler raises in place of e
ExceptClauses(e) ==
    IF IsInstance(e, "HTTPStatusError")
    THEN (IF e.status = 404 THEN 404 ELSE e.status)
    ELSE IF IsInstance(e, "RequestError") THEN 503
    ELSE IF IsInstance(e, "Exception") THEN 500
    ELSE e.status

\* GET /api/outline?country=ctry: the response and what the call did
get_country_outline(c, ctry, up) ==
    LET r == TryBody(c, ctry, up)
    IN  IF r.exc = NoExc
        THEN [status |-> 200, hasBody |-> TRUE, body |-> r.ret, cache |-> r.cache,
              fetches |-> r.fetches, up |-> r.up, accessed |-> r.accessed]
        ELSE [status |-> ExceptClauses(r.exc), hasBody |-> FALSE, body |-> <<>>,
              cache |-> r.cache, fetches |-> r.fetches, up |-> r.up,
              accessed |-> r.accessed]

(***************************************************************************)
(* Spec: requests, direct cached_get calls and clear_cache calls, in any   *)
(* order, from any content of the cache directory.                         *)
(***************************************************************************)
PageIndia == << [tag |-> <<"h","1">>, text |-> S_India],
                [tag |-> <<"p">>, text |-> T_GeoPadded],
                [tag |-> <<"h","2">>, text |-> T_HistoryEdit],
                [tag |-> <<"h","2">>, text |-> S_Etymology] >>

PageBare == << [tag |-> <<"p">>, text |-> T_GeoPadded] >>

Pages == {PageIndia, PageBare}

Upstreams ==
    {[kind |-> "ok", code |-> 200, body |-> b, class |-> ""] : b \in Pages}
    \cup {[kind |-> "status", code |-> s, body |-> <<>>, class |-> "HTTPStatusError"] :
            s \in {404, 500}}
    \cup {[kind |-> "transport", code |-> 0, body |-> <<>>, class |-> k] :
            k \in {"ConnectError", "ConnectTimeout"}}

RequestCountries == {<<>>, <<" ", "\t">>, S_india, S_new_york}

URLs == {construct_url(c) : c \in {S_india, S_new_york}}

\* A file of the cache directory that no URL of the model names
StrayFile == <<"stray">>

Files == {Md5(u) : u \in URLs} \cup {StrayFile}

NoOp == [op |-> "none", arg |-> <<>>, fetches |-> 0, accessed |-> FALSE,
         up |-> NoUpstream, hasBody |-> FALSE, raised |-> FALSE, status |-> 0,
         ret |-> <<>>]

Init ==
    /\ cache \in [Files -> {Absent} \cup {FileOf(b) : b \in Pages}]
    /\ last = NoOp
    /\ prev = NoOp
    /\ ExtractIdle /\ OutlineIdle /\ ConcIdle /\ LoopIdle

Request ==
    \E ctry \in RequestCountries, up \in Upstreams :
        LET r == get_country_outline(cache, ctry, up)
        IN  /\ cache' = r.cache
            /\ last' = [op |-> "request", arg |-> ctry, fetches |-> r.fetches,
                        accessed |-> r.accessed, up |-> r.up, hasBody |-> r.hasBody, raised |-> ~r.hasBody,
                        status |-> r.status, ret |-> r.body]
            /\ prev' = last
            /\ UNCHANGED <<xvars, ovars, cvars, lvars>>

CachedGet ==
    \E url \in URLs, up \in Upstreams :
        LET r == cached_get(cache, url, up)
        IN  /\ cache' = r.cache
            /\ last' = [op |-> "cached_get", arg |-> url, fetches |-> r.fetches,
                        accessed |-> TRUE, up |-> r.up, hasBody |-> FALSE,
                        raised |-> r.exc # NoExc,
                        status |-> 0, ret |-> r.ret]
            /\ prev' = last
            /\ UNCHANGED <<xvars, ovars, cvars, lvars>>

ClearCache ==
    \E url \in URLs \cup {NoneUrl, <<>>} :
        /\ cache' = clear_cache(cache, url)
        /\ last' = [op |-> "clear_cache", arg |-> url, fetches |-> 0,
                    accessed |-> TRUE, up |-> NoUpstream, hasBody |-> FALSE,
                    raised |-> FALSE, status |-> 0, ret |-> <<>>]
        /\ prev' = last
        /\ UNCHANGED <<xvars, ovars, cvars, lvars>>

Next == Request \/ CachedGet \/ ClearCache

Spec == Init /\ [][Next]_vars

(***************************************************************************)
(* Properties of the handler and of the cache, one call at a time.         *)
(***************************************************************************)
\* The country parameter is present but empty or all whitespace
IsBlank(c) == \A i \in DOMAIN c : c[i] \in Whitespace

\* C1: a request whose country is empty or only whitespace is answered 400,
\* and neither a fetch nor a cache access is made for it.
C1_BlankCountryIs400 ==
    (last.op = "request" /\ IsBlank(last.arg)) =>
        /\ last.status = 400
        /\ last.fetches = 0
        /\ ~last.accessed

\* C2: a request with a non-empty country whose page retrieval fails is
\* answered by the kind of failure: an upstream reply with non-success status
\* s (404 included) gives status s, a transport failure gives 503; no outline
\* body is returned and the fetch is made once, with no retry.
C2_FailureStatus ==
    (last.op = "request" /\ ~IsBlank(last.arg) /\ last.up.kind \in {"status", "transport"}) =>
        /\ last.up.kind = "status" => last.status = last.up.code
        /\ last.up.kind = "transport" => last.status = 503
        /\ ~last.hasBody
        /\ last.fetches = 1

\* C2 witness: an upstream 404 has been answered 404
C2_Witness ==
    /\ last.op = "request"
    /\ ~IsBlank(last.arg)
    /\ last.up.kind = "status"
    /\ last.up.code = 404
    /\ last.status = 404

SameUrlTwice ==
    /\ prev.op = "cached_get"
    /\ last.op = "cached_get"
    /\ prev.arg = last.arg

C5_ClearThenRefetch ==
    /\ [](\A u \in URLs :
            (prev.op = "clear_cache" /\ prev.arg = u
             /\ last.op = "cached_get" /\ last.arg = u) => last.fetches = 1)
    /\ [][/\ \A u \in URLs :
               (last'.op = "clear_cache" /\ last'.arg = u) =>
                   /\ cache'[Md5(u)] = Absent
                   /\ \A f \in Files \ {Md5(u)} : cache'[f] = cache[f]
          /\ (last'.op = "clear_cache" /\ last'.arg = NoneUrl) =>
                   \A f \in Files : cache'[f] = Absent]_vars

\* C5 witness: a URL's file was cleared while another file stayed, and the
\* next cached_get of that URL fetched
C5_Witness ==
    \E u \in URLs :
        /\ prev.op = "clear_cache" /\ prev.arg = u
        /\ last.op = "cached_get" /\ last.arg = u
        /\ last.fetches = 1
        /\ \E f \in Files \ {Md5(u)} : cache[f].present

(***************************************************************************)
(* SpecConc: concurrent cached_get(url) calls on one URL, step by step.    *)
(* The calls run in threads or worker processes that share the cache       *)
(* directory; nothing in cached_get takes a lock.  The body reaches the    *)
(* file in NChunks writes, each at the writer's own file offset.           *)
(***************************************************************************)
Procs == 1..NProcs

\* response.text, as the chunks the buffered writer flushes; 0 is a hole
Body == [i \in 1..NChunks |-> i]

\* A variant that writes at the end of the file (the file opened with 'a')
WriteAppend(content, o, chunk) == Append(content, chunk)

\* A write of chunk at offset o of a file opened with 'w': it overwrites, or
\* extends the file, leaving a hole when o is past the end
WriteAt(content, o, chunk) ==
    [i \in 1..(IF o + 1 > Len(content) THEN o + 1 ELSE Len(content)) |->
        IF i = o + 1 THEN chunk
        ELSE IF i <= Len(content) THEN content[i]
        ELSE 0]

InitConc ==
    /\ file = Absent
    /\ pc = [p \in Procs |-> "start"]
    /\ off = [p \in Procs |-> 0]
    /\ ret = [p \in Procs |-> <<>>]
    /\ missed = [p \in Procs |-> FALSE]
    /\ ExtractIdle /\ OutlineIdle /\ ServiceIdle /\ LoopIdle

\* if cache_path.exists():
ExistsCheck(p) ==
    /\ pc[p] = "start"
    /\ pc' = [pc EXCEPT ![p] = IF file.present THEN "read" ELSE "get"]
    /\ missed' = [missed EXCEPT ![p] = ~file.present]
    /\ UNCHANGED <<file, off, ret, xvars, ovars, svars, lvars>>

\* with open(cache_path, 'r') as f: return f.read()
ReadFile(p) ==
    /\ pc[p] = "read"
    /\ file.present
    /\ ret' = [ret EXCEPT ![p] = file.content]
    /\ pc' = [pc EXCEPT ![p] = "done"]
    /\ UNCHANGED <<file, off, missed, xvars, ovars, svars, lvars>>

\* httpx.get(...); response.raise_for_status()
HttpGet(p) ==
    /\ pc[p] = "get"
    /\ \E ok \in BOOLEAN : pc' = [pc EXCEPT ![p] = IF ok THEN "open" ELSE "raised"]
    /\ UNCHANGED <<file, off, ret, missed, xvars, ovars, svars, lvars>>

\* open(cache_path, 'w'): creates the file or truncates it
OpenWrite(p) ==
    /\ pc[p] = "open"
    /\ file' = FileOf(<<>>)
    /\ off' = [off EXCEPT ![p] = 0]
    /\ pc' = [pc EXCEPT ![p] = "write"]
    /\ UNCHANGED <<ret, missed, xvars, ovars, svars, lvars>>

\* f.write(response.text), one flush of the buffer
WriteChunk(p) ==
    /\ pc[p] = "write"
    /\ off[p] < Len(Body)
    /\ file' = FileOf(WriteAt(file.content, off[p], Body[off[p] + 1]))
    /\ off' = [off EXCEPT ![p] = off[p] + 1]
    /\ UNCHANGED <<pc, ret, missed, xvars, ovars, svars, lvars>>

\* the with block ends; return response.text
CloseAndReturn(p) ==
    /\ pc[p] = "write"
    /\ off[p] = Len(Body)
    /\ ret' = [ret EXCEPT ![p] = Body]
    /\ pc' = [pc EXCEPT ![p] = "done"]
    /\ UNCHANGED <<file, off, missed, xvars, ovars, svars, lvars>>

NextConc ==
    \E p \in Procs :
        \/ ExistsCheck(p)
        \/ ReadFile(p)
        \/ HttpGet(p)
        \/ OpenWrite(p)
        \/ WriteChunk(p)
        \/ CloseAndReturn(p)

SpecConc == InitConc /\ [][NextConc]_vars

\* C8: when concurrent cached_get(url) calls all miss and all receive the
\* same upstream body, then under every interleaving of their checks,
\* fetches, truncations and writes, once all have finished the cache file
\* holds exactly the complete body.
C8_FinalFileComplete ==
    (\A p \in Procs : pc[p] = "done" /\ missed[p]) => file = FileOf(Body)

\* C8 witness: every call missed, fetched, wrote and finished
C8_Witness ==
    /\ \A p \in Procs : pc[p] = "done" /\ missed[p] /\ off[p] = Len(Body)
    /\ file.present

\* C10: under every interleaving, a call that returns returns the complete
\* upstream body, also when its existence check succeeded while another call
\* had opened the file for writing and not finished.
C10_ReturnsCompleteBody ==
    \A p \in Procs : pc[p] = "done" => ret[p] = Body

(***************************************************************************)
(* SpecLoop: the server's event loop.  The handlers are `async def` and    *)
(* hold no await: a handler, once started, occupies the loop's thread      *)
(* until it returns, its blocking httpx.get and file I/O included.         *)
(***************************************************************************)
Reqs == 1..NReqs

Endpoints == {"health", "India", "Japan"}

InitLoop ==
    /\ loop = 0
    /\ rstate = [r \in Reqs |-> "new"]
    /\ rkind = [r \in Reqs |-> "health"]
    /\ stored \in SUBSET {"India"}
    /\ ExtractIdle /\ OutlineIdle /\ ServiceIdle /\ ConcIdle

\* A client's request reaches the server
Arrive(r) ==
    /\ rstate[r] = "new"
    /\ \E k \in Endpoints : rkind' = [rkind EXCEPT ![r] = k]
    /\ rstate' = [rstate EXCEPT ![r] = "pending"]
    /\ UNCHANGED <<loop, stored, xvars, ovars, svars, cvars>>

\* The loop, free, starts the handler of a pending request
Dispatch(r) ==
    /\ loop = 0
    /\ rstate[r] = "pending"
    /\ loop' = r
    /\ rstate' = [rstate EXCEPT ![r] = "running"]
    /\ UNCHANGED <<rkind, stored, xvars, ovars, svars, cvars>>

\* health_check returns
HealthCheck(r) ==
    /\ loop = r
    /\ rstate[r] = "running"
    /\ rkind[r] = "health"
    /\ rstate' = [rstate EXCEPT ![r] = "done"]
    /\ loop' = 0
    /\ UNCHANGED <<rkind, stored, xvars, ovars, svars, cvars>>

\* get_country_outline reaches cached_get: a hit reads the file, a miss
\* calls httpx.get
OutlineStart(r) ==
    /\ loop = r
    /\ rstate[r] = "running"
    /\ rkind[r] # "health"
    /\ rstate' = [rstate EXCEPT ![r] = IF rkind[r] \in stored THEN "file_io" ELSE "fetching"]
    /\ UNCHANGED <<loop, rkind, stored, xvars, ovars, svars, cvars>>

\* httpx.get returns a page, which is then written to the cache file
FetchReturns(r) ==
    /\ loop = r
    /\ rstate[r] = "fetching"
    /\ rstate' = [rstate EXCEPT ![r] = "file_io"]
    /\ stored' = stored \cup {rkind[r]}
    /\ UNCHANGED <<loop, rkind, xvars, ovars, svars, cvars>>

\* httpx.get raises, or the reply is not a success: the handler answers the error
FetchFails(r) ==
    /\ loop = r
    /\ rstate[r] = "fetching"
    /\ rstate' = [rstate EXCEPT ![r] = "done"]
    /\ loop' = 0
    /\ UNCHANGED <<rkind, stored, xvars, ovars, svars, cvars>>

\* The file is read or written, and the handler returns its response
FileIODone(r) ==
    /\ loop = r
    /\ rstate[r] = "file_io"
    /\ rstate' = [rstate EXCEPT ![r] = "done"]
    /\ loop' = 0
    /\ UNCHANGED <<rkind, stored, xvars, ovars, svars, cvars>>

NextLoop ==
    \E r \in Reqs :
        \/ Arrive(r)
        \/ Dispatch(r)
        \/ HealthCheck(r)
        \/ OutlineStart(r)
        \/ FetchReturns(r)
        \/ FetchFails(r)
        \/ FileIODone(r)

SpecLoop == InitLoop /\ [][NextLoop]_vars

\* C9: while one /api/outline request is suspended in its network fetch or in
\* cache file I/O, an unrelated request that has arrived can still be taken
\* up by the service; a blocked fetch never keeps other requests waiting.
C9_OthersProgress ==
    \A r \in Reqs, q \in Reqs :
        (r # q /\ rstate[r] \in {"fetching", "file_io"} /\ rstate[q] = "pending"
            /\ rkind[q] # rkind[r])
            => ENABLED Dispatch(q)

====
